---- MODULE Spec2Model ----
(***************************************************************************)
(* Model of unstructured/metrics/text_extraction.py:                       *)
(*   calculate_edit_distance  (weighted Levenshtein scorer)                *)
(*   remove_punctuation, bag_of_words  (tokenizing word counter)           *)
(*                                                                         *)
(* Strings are sequences of one-character strings.  Floats produced by     *)
(* the scorer are exact rationals [num, den] (den > 0); every float the    *)
(* code forms is a quotient of integers far below 2^53, so the order and   *)
(* the comparisons with 0.0 and 1.0 are the same as on the rationals.      *)
(***************************************************************************)
EXTENDS Integers, Sequences, FiniteSets, TLC

VARIABLES
    \* calculate_edit_distance: arguments, locals, control point, outcome
    output, source, weights, return_as,
    pc, distance, char_len, bounded_percentage_distance, result, raised,
    \* bag_of_words: argument, locals, control point, outcome
    text, words, i, bow, bpc, bresult,
    \* exhaustive search of the edit graph (reference for the raw distance)
    best,
    \* a caller scoring many outputs against one source: output -> outcomes
    scores

edVars  == <<output, source, weights, return_as,
             pc, distance, char_len, bounded_percentage_distance, result, raised>>
bowVars == <<text, words, i, bow, bpc, bresult>>
vars    == <<edVars, bowVars, best, scores>>

-----------------------------------------------------------------------------
(* Bounds of the model *)

MaxLen == 3
MaxWeight == 2
MaxTextLen == 6

-----------------------------------------------------------------------------
(* Input domains *)

Chars == {"a", "b"}

\* All strings over `alphabet` of length at most n
StringsUpTo(alphabet, n) == UNION {[1..k -> alphabet] : k \in 0..n}

Strs == StringsUpTo(Chars, MaxLen)

WeightTriples == (0..MaxWeight) \X (0..MaxWeight) \X (0..MaxWeight)

DefaultWeights == <<2, 1, 1>>

ReturnAsValues == {"score", "distance", "bogus"}

-----------------------------------------------------------------------------
(* Arithmetic helpers *)

Min2(a, b) == IF b < a THEN b ELSE a
Min3(a, b, c) == Min2(Min2(a, b), c)

\* Exact rationals standing for Python floats.
Rat(n, d) == [num |-> n, den |-> d]
RLess(a, b) == a.num * b.den < b.num * a.den
REq(a, b) == a.num * b.den = b.num * a.den
RLeq(a, b) == RLess(a, b) \/ REq(a, b)
\* Python's max(a, b) / min(a, b): the first argument unless the second is
\* strictly larger / smaller.
PyMax(a, b) == IF RLess(a, b) THEN b ELSE a
PyMin(a, b) == IF RLess(b, a) THEN b ELSE a
Zero == Rat(0, 1)
One == Rat(1, 1)
\* Faulty variant: the "1 -" of the score left out.
OneMinus_LeftOut(a) == a
OneMinus(a) == Rat(a.den - a.num, a.den)

-----------------------------------------------------------------------------
(* rapidfuzz Levenshtein.distance(s1, s2, weights=(ins, del, sub)):         *)
(* Wagner-Fischer over rows; cell (r, c) is the cost of turning the first  *)
(* r characters of s1 into the first c characters of s2.                   *)

\* Faulty variant: row 0 charged at the deletion cost.
RECURSIVE FirstRow_DeletionCost(_, _, _)
FirstRow_DeletionCost(row, s2, w) ==
    IF Len(row) = Len(s2) + 1 THEN row
    ELSE FirstRow_DeletionCost(Append(row, Len(row) * w[2]), s2, w)

\* Row 0: c insertions build the first c characters of s2 from nothing.
RECURSIVE FirstRow(_, _, _)
FirstRow(row, s2, w) ==
    IF Len(row) = Len(s2) + 1 THEN row
    ELSE FirstRow(Append(row, Len(row) * w[1]), s2, w)

\* Faulty variant: a substitution is charged even when the characters match.
RECURSIVE FillRow_ChargesMatches(_, _, _, _, _)
FillRow_ChargesMatches(prev, cur, ch, s2, w) ==
    IF Len(cur) = Len(s2) + 1 THEN cur
    ELSE LET c == Len(cur)
             cell == Min3(prev[c + 1] + w[2], cur[c] + w[1], prev[c] + w[3])
         IN  FillRow_ChargesMatches(prev, Append(cur, cell), ch, s2, w)

\* Fill row r from row r-1 (prev); cur holds the cells computed so far.
RECURSIVE FillRow(_, _, _, _, _)
FillRow(prev, cur, ch, s2, w) ==
    IF Len(cur) = Len(s2) + 1 THEN cur
    ELSE LET c == Len(cur)
             cell == Min3(prev[c + 1] + w[2],
                          cur[c] + w[1],
                          prev[c] + (IF ch = s2[c] THEN 0 ELSE w[3]))
         IN  FillRow(prev, Append(cur, cell), ch, s2, w)

RECURSIVE Rows(_, _, _, _, _)
Rows(prev, r, s1, s2, w) ==
    IF r > Len(s1) THEN prev
    ELSE Rows(FillRow(prev, <<r * w[2]>>, s1[r], s2, w), r + 1, s1, s2, w)

\* Faulty variant: the two strings passed in the other order.
LevenshteinDistance_Swapped(s1, s2, w) ==
    Rows(FirstRow(<<>>, s1, w), 1, s2, s1, w)[Len(s1) + 1]

LevenshteinDistance(s1, s2, w) ==
    Rows(FirstRow(<<>>, s2, w), 1, s1, s2, w)[Len(s2) + 1]

-----------------------------------------------------------------------------
(* calculate_edit_distance, statement by statement *)

return_types == {"score", "distance"}

\* Faulty variant: the raw distance is clamped instead of the ratio.
BoundedPercentageDistance_ClampsDistance(d, n) == PyMin(PyMax(Rat(d, 1), Zero), One)

\* line 49, for char_len # 0
BoundedPercentageDistance(d, n) == PyMin(PyMax(Rat(d, n), Zero), One)

NoValue == Rat(0, 0)

\* Faulty variant: return_as is not validated.
Validate_AcceptsAnything ==
    /\ pc = "validate"
    /\ pc' = "levenshtein"
    /\ UNCHANGED <<output, source, weights, return_as, distance, char_len,
                   bounded_percentage_distance, result, raised>>
    /\ UNCHANGED <<bowVars, best, scores>>

Validate ==
    /\ pc = "validate"
    /\ IF return_as \notin return_types
       THEN /\ pc' = "raised"
            /\ raised' = "ValueError"
       ELSE /\ pc' = "levenshtein"
            /\ UNCHANGED raised
    /\ UNCHANGED <<output, source, weights, return_as, distance, char_len,
                   bounded_percentage_distance, result>>
    /\ UNCHANGED <<bowVars, best, scores>>

ComputeDistance ==
    /\ pc = "levenshtein"
    /\ distance' = LevenshteinDistance(output, source, weights)
    /\ char_len' = Len(source)
    /\ pc' = "normalize"
    /\ UNCHANGED <<output, source, weights, return_as,
                   bounded_percentage_distance, result, raised>>
    /\ UNCHANGED <<bowVars, best, scores>>

Normalize ==
    /\ pc = "normalize"
    /\ IF char_len = 0
       THEN /\ pc' = "raised"
            /\ raised' = "ZeroDivisionError"
            /\ UNCHANGED bounded_percentage_distance
       ELSE /\ bounded_percentage_distance' = BoundedPercentageDistance(distance, char_len)
            /\ pc' = "return"
            /\ UNCHANGED raised
    /\ UNCHANGED <<output, source, weights, return_as, distance, char_len, result>>
    /\ UNCHANGED <<bowVars, best, scores>>

Return ==
    /\ pc = "return"
    /\ result' = IF return_as = "score" THEN OneMinus(bounded_percentage_distance)
                 ELSE IF return_as = "distance" THEN Rat(distance, 1)
                 ELSE Zero
    /\ pc' = "returned"
    /\ UNCHANGED <<output, source, weights, return_as, distance, char_len,
                   bounded_percentage_distance, raised>>
    /\ UNCHANGED <<bowVars, best, scores>>

\* The whole call as a function of its arguments.
calculate_edit_distance(o, s, w, r) ==
    IF r \notin return_types
    THEN [status |-> "raised", exc |-> "ValueError", value |-> NoValue]
    ELSE LET d == LevenshteinDistance(o, s, w)
             n == Len(s)
         IN  IF n = 0
             THEN [status |-> "raised", exc |-> "ZeroDivisionError", value |-> NoValue]
             ELSE LET b == BoundedPercentageDistance(d, n)
                  IN  [status |-> "returned", exc |-> "none",
                       value |-> IF r = "score" THEN OneMinus(b)
                                 ELSE IF r = "distance" THEN Rat(d, 1)
                                 ELSE Zero]

-----------------------------------------------------------------------------
(* bag_of_words: normalisation (line 74) *)

\* The empty dict
EmptyBag == [k \in {} |-> 0]

\* Characters a text is drawn from: a lower-case letter, its upper-case form,
\* whitespace, a punctuation mark that is stripped and one that is kept.
TextChars == {"a", "A", " ", ".", "'"}

Texts == StringsUpTo(TextChars, MaxTextLen)

\* str.lower(), character by character
LowerChar(c) == IF c = "A" THEN "a" ELSE c
Lower(s) == [k \in 1..Len(s) |-> LowerChar(s[k])]

\* Characters whose Unicode general category starts with "P"
PunctuationChars == {".", "'", "-"}

RECURSIVE DeleteChars(_, _)
DeleteChars(s, tbl) ==
    IF s = <<>> THEN <<>>
    ELSE IF Head(s) \in tbl THEN DeleteChars(Tail(s), tbl)
    ELSE <<Head(s)>> \o DeleteChars(Tail(s), tbl)

remove_punctuation(s, exclude_punctuation) ==
    LET tbl == PunctuationChars \ {exclude_punctuation[k] : k \in DOMAIN exclude_punctuation}
    IN  DeleteChars(s, tbl)

IsSpace(c) == c = " "

\* str.split(): maximal runs of non-whitespace characters, in order
RECURSIVE SplitFrom(_, _, _)
SplitFrom(s, cur, acc) ==
    IF s = <<>> THEN (IF cur = <<>> THEN acc ELSE Append(acc, cur))
    ELSE IF IsSpace(Head(s))
         THEN SplitFrom(Tail(s), <<>>, IF cur = <<>> THEN acc ELSE Append(acc, cur))
         ELSE SplitFrom(Tail(s), Append(cur, Head(s)), acc)

Split(s) == SplitFrom(s, <<>>, <<>>)

-----------------------------------------------------------------------------
(* bag_of_words: the cursor walk (lines 76-97); i and j are 0-based as in    *)
(* the code, so words[i] of the code is ws[i + 1] here.                     *)

\* lines 79-82 and 92-95: bow[w] += 1, or bow[w] = 1 for a new key
Increment(b, w) ==
    IF w \in DOMAIN b THEN [b EXCEPT ![w] = @ + 1] ELSE b @@ (w :> 1)

\* Faulty variant: the inner loop takes one fragment only.
RunEnd_OneFragment(ws, j) ==
    IF j < Len(ws) /\ Len(ws[j + 1]) = 1 THEN j + 1 ELSE j

\* Faulty variant: the inner loop never advances.
RunEnd_Stuck(ws, j) == j

\* lines 87-89: the index at which the inner while loop stops
RECURSIVE RunEnd(_, _)
RunEnd(ws, j) ==
    IF j < Len(ws) /\ Len(ws[j + 1]) = 1 THEN RunEnd(ws, j + 1) ELSE j

\* lines 86-89: incorrect_word, the concatenation of words[from .. to-1]
RECURSIVE Concatenation(_, _, _)
Concatenation(ws, from, to) ==
    IF from >= to THEN <<>>
    ELSE ws[from + 1] \o Concatenation(ws, from + 1, to)

\* Faulty variant: the merged run is counted whatever its length.
CountMerged_AnyLength(b, incorrect_word) ==
    IF Len(incorrect_word) >= 1 THEN Increment(b, incorrect_word) ELSE b

\* lines 91-95
CountMerged(b, incorrect_word) ==
    IF Len(incorrect_word) = 1 THEN Increment(b, incorrect_word) ELSE b

Tokenize ==
    /\ bpc = "start"
    /\ bow' = EmptyBag
    /\ words' = Split(remove_punctuation(Lower(text), <<"-", "'">>))
    /\ i' = 0
    /\ bpc' = "loop"
    /\ UNCHANGED <<text, bresult>>
    /\ UNCHANGED <<edVars, best, scores>>

CountWord ==
    /\ bpc = "loop"
    /\ i < Len(words)
    /\ Len(words[i + 1]) > 1
    /\ bow' = Increment(bow, words[i + 1])
    /\ i' = i + 1
    /\ UNCHANGED <<text, words, bpc, bresult>>
    /\ UNCHANGED <<edVars, best, scores>>

MergeRun ==
    /\ bpc = "loop"
    /\ i < Len(words)
    /\ ~(Len(words[i + 1]) > 1)
    /\ LET j == RunEnd(words, i)
           incorrect_word == Concatenation(words, i, j)
       IN  /\ bow' = CountMerged(bow, incorrect_word)
           /\ i' = j
    /\ UNCHANGED <<text, words, bpc, bresult>>
    /\ UNCHANGED <<edVars, best, scores>>

BowReturn ==
    /\ bpc = "loop"
    /\ ~(i < Len(words))
    /\ bresult' = bow
    /\ bpc' = "returned"
    /\ UNCHANGED <<text, words, i, bow>>
    /\ UNCHANGED <<edVars, best, scores>>

-----------------------------------------------------------------------------
(* Idle values of the parts a specification does not run *)

EdIdle ==
    /\ output = <<>> /\ source = <<>> /\ weights = DefaultWeights
    /\ return_as = "score" /\ pc = "idle" /\ distance = 0 /\ char_len = 0
    /\ bounded_percentage_distance = NoValue /\ result = NoValue /\ raised = "none"

BowIdle ==
    /\ text = <<>> /\ words = <<>> /\ i = 0 /\ bow = EmptyBag
    /\ bpc = "idle" /\ bresult = EmptyBag

BestIdle == best = EmptyBag /\ scores = EmptyBag

-----------------------------------------------------------------------------
(* Specification of the scorer: one call with arbitrary arguments *)

Init ==
    /\ output \in Strs
    /\ source \in Strs
    /\ weights \in WeightTriples
    /\ return_as \in ReturnAsValues
    /\ pc = "validate"
    /\ distance = 0
    /\ char_len = 0
    /\ bounded_percentage_distance = NoValue
    /\ result = NoValue
    /\ raised = "none"
    /\ BowIdle
    /\ BestIdle

Next ==
    \/ Validate
    \/ ComputeDistance
    \/ Normalize
    \/ Return

Spec == Init /\ [][Next]_vars

-----------------------------------------------------------------------------
(* Specification of a caller that scores every output against one source,  *)
(* in both return modes, as the tests of the scorer do.                    *)

ScoreOutputs ==
    /\ pc = "batch"
    /\ scores' = [o \in Strs |->
                    [distance |-> calculate_edit_distance(o, source, weights, "distance"),
                     score |-> calculate_edit_distance(o, source, weights, "score")]]
    /\ pc' = "scored"
    /\ UNCHANGED <<output, source, weights, return_as, distance, char_len,
                   bounded_percentage_distance, result, raised>>
    /\ UNCHANGED <<bowVars, best>>

InitBatch ==
    /\ source \in Strs
    /\ weights \in WeightTriples
    /\ output = <<>> /\ return_as = "score" /\ pc = "batch"
    /\ distance = 0 /\ char_len = 0
    /\ bounded_percentage_distance = NoValue /\ result = NoValue /\ raised = "none"
    /\ scores = EmptyBag
    /\ best = EmptyBag
    /\ BowIdle

NextBatch == ScoreOutputs

SpecBatch == InitBatch /\ [][NextBatch]_vars

-----------------------------------------------------------------------------
(* Specification of the word counter: one call with an arbitrary text *)

InitBow ==
    /\ text \in Texts
    /\ words = <<>>
    /\ i = 0
    /\ bow = EmptyBag
    /\ bpc = "start"
    /\ bresult = EmptyBag
    /\ EdIdle
    /\ BestIdle

NextBow ==
    \/ Tokenize
    \/ CountWord
    \/ MergeRun
    \/ BowReturn

SpecBow == InitBow /\ [][NextBow]_vars

\* The call runs to completion: a statement that can execute does execute.
SpecBowFair == SpecBow /\ WF_vars(NextBow)

-----------------------------------------------------------------------------
(* The edit graph: what "a sequence of single-character insertions,        *)
(* deletions and substitutions that transforms output into source" costs.  *)
(* best[x] is the cost of the cheapest edit script found so far that turns *)
(* output into x, over strings of length <= MaxLen; a step extends every  *)
(* script found so far by one more edit.                                   *)

Infinity == 2 * MaxLen * MaxWeight + 1

SetMin(S) == CHOOSE m \in S : \A n \in S : m <= n

InsertAt(x, p, c) == SubSeq(x, 1, p) \o <<c>> \o SubSeq(x, p + 1, Len(x))
DeleteAt(x, p) == SubSeq(x, 1, p - 1) \o SubSeq(x, p + 1, Len(x))
SubstituteAt(x, p, c) == [x EXCEPT ![p] = c]

\* The strings one edit away from x
Insertions(x) ==
    IF Len(x) >= MaxLen THEN {}
    ELSE {InsertAt(x, p, c) : p \in 0..Len(x), c \in Chars}
Deletions(x) == {DeleteAt(x, p) : p \in 1..Len(x)}
Substitutions(x) == {SubstituteAt(x, p, c) : p \in 1..Len(x), c \in Chars} \ {x}

\* Undoing an edit: an insertion is undone by a deletion and the other way
\* round, a substitution by a substitution.
EditsAreReversible ==
    \A x \in Strs, y \in Strs :
        /\ y \in Insertions(x) <=> x \in Deletions(y)
        /\ y \in Substitutions(x) <=> x \in Substitutions(y)

\* The costs of the scripts that reach y by one more edit, by kind of the
\* last edit: an insertion into x gives y exactly when x is y less one
\* character, a deletion from x gives y when x is y plus one character.
Extended(b, w, y) ==
    {b[x] + w[1] : x \in Deletions(y)}
        \cup {b[x] + w[2] : x \in Insertions(y)}
        \cup {b[x] + w[3] : x \in Substitutions(y)}

Relaxed(b, w) == [y \in Strs |-> SetMin({b[y]} \cup Extended(b, w, y))]

\* Every script found so far, extended by one more edit of any kind
ExploreEdits ==
    /\ pc = "edits"
    /\ best' = Relaxed(best, weights)
    /\ best' # best
    /\ UNCHANGED <<edVars, bowVars, scores>>

InitEdits ==
    /\ output \in Strs
    /\ weights \in WeightTriples
    /\ source = <<>> /\ return_as = "distance" /\ pc = "edits"
    /\ distance = 0 /\ char_len = 0
    /\ bounded_percentage_distance = NoValue /\ result = NoValue /\ raised = "none"
    /\ best = [x \in Strs |-> IF x = output THEN 0 ELSE Infinity]
    /\ scores = EmptyBag
    /\ BowIdle

NextEdits == ExploreEdits

SpecEdits == InitEdits /\ [][NextEdits]_vars

\* No further edit makes any script cheaper: best[x] is the minimum cost.
Explored == pc = "edits" /\ Relaxed(best, weights) = best

\* C4: for every non-empty source the "distance" mode returns exactly the
\* minimum total cost of an edit script turning output into source: no
\* script is cheaper, and the cheapest one costs exactly the returned value,
\* which is neither clamped nor divided by the source length.
C4_DistanceIsMinimumCost ==
    pc = "edits" =>
        EditsAreReversible /\
        LET explored == Explored
        IN  \A s \in Strs \ {<<>>} :
                LET r == calculate_edit_distance(output, s, weights, "distance")
                IN  /\ r.status = "returned"
                    /\ r.value.den = 1
                    /\ r.value.num <= best[s]
                    /\ explored => r.value.num = best[s]

C4_Witness ==
    /\ Explored
    /\ weights[1] # weights[2] /\ weights[3] > weights[1] + weights[2]
    /\ \E s \in Strs : s # <<>> /\ best[s] > Len(s) /\ best[s] < Infinity
    /\ \E s \in Strs : Len(s) = Len(output) /\ best[s] = weights[1] + weights[2]

-----------------------------------------------------------------------------
(* Properties of calculate_edit_distance *)

Finished == pc \in {"returned", "raised"}

IsSubsequence(a, b) ==
    \E pos \in [1..Len(a) -> 1..Len(b)] :
        /\ \A k \in 1..Len(a) : b[pos[k]] = a[k]
        /\ \A k \in 1..(Len(a) - 1) : pos[k] < pos[k + 1]

\* C1: for every input with a recognised return_as (any output, any source,
\* the empty one included, non-negative weights) the call returns a value:
\* a score s with 0.0 <= s <= 1.0, or a distance d with d >= 0.
C1_Boundedness ==
    (Finished /\ return_as \in return_types) =>
        /\ pc = "returned"
        /\ result.den > 0
        /\ return_as = "score" => RLeq(Zero, result) /\ RLeq(result, One)
        /\ return_as = "distance" => RLeq(Zero, result)

\* C2: with an empty source the call never ends in the arithmetic fault of
\* the division by the source length.
C2_EmptySourceHandled ==
    (Finished /\ source = <<>>) => ~(pc = "raised" /\ raised = "ZeroDivisionError")

\* C3: an unrecognised return_as always ends in ValueError with no result,
\* whatever the other arguments are; a recognised one never raises ValueError.
C3_InvalidReturnAs ==
    /\ raised = "ValueError" => return_as \notin return_types
    /\ Finished =>
          /\ return_as \notin return_types =>
                pc = "raised" /\ raised = "ValueError" /\ result = NoValue
          /\ return_as \in return_types => raised # "ValueError"

C3_Witness ==
    /\ pc = "raised" /\ raised = "ValueError"
    /\ source = <<>> /\ Len(output) = MaxLen /\ weights # DefaultWeights

Clamp(d, n) == IF d < 0 THEN 0 ELSE IF d > n THEN n ELSE d

\* C5: for a non-empty source the score is 1 - min(1, max(0, d / len(source)))
\* with d the value the "distance" mode returns for the same arguments: it is
\* 1.0 exactly when d = 0, 0.0 exactly when d >= len(source), and strictly
\* between otherwise (d = 7 on length 28 gives 0.75, d = 30 on 28 gives 0.0).
C5_ScoreFormula ==
    /\ REq(OneMinus(BoundedPercentageDistance(7, 28)), Rat(3, 4))
    /\ REq(OneMinus(BoundedPercentageDistance(30, 28)), Zero)
    /\ (pc = "returned" /\ return_as = "score") =>
          LET dm == calculate_edit_distance(output, source, weights, "distance")
              d == dm.value.num
              n == Len(source)
          IN  /\ n > 0
              /\ dm.status = "returned" /\ dm.value.den = 1
              /\ result.den > 0
              /\ REq(result, Rat(n - Clamp(d, n), n))
              /\ REq(result, One) <=> d = 0
              /\ REq(result, Zero) <=> d >= n
              /\ (0 < d /\ d < n) => RLess(Zero, result) /\ RLess(result, One)

C5_Witness ==
    /\ pc = "returned" /\ return_as = "score"
    /\ RLess(Zero, result) /\ RLess(result, One)
    /\ output # source

C5_WitnessSaturated ==
    /\ pc = "returned" /\ return_as = "score"
    /\ distance > Len(source) /\ REq(result, Zero)

\* C6: identity: for a non-empty x and any non-negative weights, comparing x
\* with itself gives score 1.0 and distance 0.
C6_Identity ==
    (Finished /\ output = source /\ source # <<>> /\ return_as \in return_types) =>
        /\ pc = "returned"
        /\ return_as = "score" => REq(result, One)
        /\ return_as = "distance" => result = Rat(0, 1)

C6_Witness ==
    /\ pc = "returned" /\ output = source /\ Len(source) = MaxLen
    /\ return_as = "score" /\ REq(result, One)
    /\ weights[1] > 0 /\ weights[2] > 0 /\ weights[3] > 0

\* C7 as stated: with the default weights an output that is the source plus
\* k extra characters has raw distance 2k, and an output that is the source
\* with k characters dropped has raw distance k.
C7_ExtraCostsDouble ==
    (pc = "returned" /\ return_as = "distance" /\ weights = DefaultWeights) =>
        /\ IsSubsequence(source, output) =>
              result = Rat(2 * (Len(output) - Len(source)), 1)
        /\ IsSubsequence(output, source) =>
              result = Rat(Len(source) - Len(output), 1)

\* C7 (amended): with the default weights (2,1,1) an output that is the
\* source plus k extra characters has raw distance k (k deletions), and an
\* output that is the source with k characters dropped has raw distance 2k
\* (k insertions); so swapping output and source can change the distance.
C7_DroppedCostsDouble ==
    (pc = "returned" /\ return_as = "distance" /\ weights = DefaultWeights) =>
        /\ IsSubsequence(source, output) =>
              result = Rat(Len(output) - Len(source), 1)
        /\ IsSubsequence(output, source) =>
              result = Rat(2 * (Len(source) - Len(output)), 1)
        /\ (output # <<>> /\ Len(output) # Len(source)
              /\ (IsSubsequence(source, output) \/ IsSubsequence(output, source))) =>
              calculate_edit_distance(source, output, weights, "distance").value # result

C7_Witness ==
    /\ pc = "returned" /\ return_as = "distance" /\ weights = DefaultWeights
    /\ IsSubsequence(output, source) /\ Len(source) = Len(output) + 2
    /\ output # <<>>
    /\ result = Rat(4, 1)
    /\ calculate_edit_distance(source, output, weights, "distance").value = Rat(2, 1)

\* C10: monotonic degradation: for a fixed non-empty source and fixed
\* weights, an output at least as far from the source as another one (in
\* weighted edit distance) never has the higher score.
C10_Monotonic ==
    (pc = "scored" /\ source # <<>>) =>
        \A o1 \in Strs, o2 \in Strs :
            /\ scores[o1].distance.status = "returned"
            /\ scores[o1].score.status = "returned"
            /\ scores[o2].distance.value.num >= scores[o1].distance.value.num =>
                  RLeq(scores[o2].score.value, scores[o1].score.value)

C10_Witness ==
    /\ pc = "scored" /\ source # <<>>
    /\ \E o1 \in Strs, o2 \in Strs :
          /\ 0 < scores[o1].distance.value.num
          /\ scores[o1].distance.value.num < scores[o2].distance.value.num
          /\ RLess(scores[o2].score.value, scores[o1].score.value)
          /\ RLess(Zero, scores[o2].score.value)
    /\ \E o1 \in Strs, o2 \in Strs :
          /\ scores[o1].distance.value.num < scores[o2].distance.value.num
          /\ REq(scores[o1].score.value, Zero)
          /\ REq(scores[o2].score.value, Zero)

-----------------------------------------------------------------------------
(* Properties of bag_of_words *)

IsLong(ws, p) == p \in 1..Len(ws) /\ Len(ws[p]) > 1
IsSingle(ws, p) == p \in 1..Len(ws) /\ Len(ws[p]) = 1
IsBoundary(ws, p) == p = 0 \/ p = Len(ws) + 1

\* The occurrences that count: a fragment longer than one character, or a
\* single character whose two neighbours are long fragments or boundaries.
Counts(ws, p) ==
    \/ IsLong(ws, p)
    \/ /\ IsSingle(ws, p)
       /\ IsLong(ws, p - 1) \/ IsBoundary(ws, p - 1)
       /\ IsLong(ws, p + 1) \/ IsBoundary(ws, p + 1)

ExpectedBag(ws) ==
    LET counted == {p \in 1..Len(ws) : Counts(ws, p)}
    IN  [k \in {ws[p] : p \in counted} |->
            Cardinality({p \in counted : ws[p] = k})]

\* C8: the result maps exactly the counted occurrences: every fragment of
\* length > 1 once per occurrence, every isolated single-character fragment
\* once per occurrence, nothing for a run of two or more single-character
\* fragments, and no other key.
C8_BagIsExpected ==
    bpc = "returned" =>
        /\ words = Split(remove_punctuation(Lower(text), <<"-", "'">>))
        /\ bresult = ExpectedBag(words)

C8_Witness ==
    /\ bpc = "returned"
    /\ \E p \in 1..Len(words) : IsSingle(words, p) /\ IsSingle(words, p + 1)
    /\ \E p \in 1..Len(words) : IsLong(words, p)
    /\ bresult # EmptyBag
    /\ \A k \in DOMAIN bresult : Len(k) > 1

\* C9: at every step of the walk and in the result, the empty string is no
\* key, every count is a positive integer and every key is one fragment of
\* the input sequence.
BagWellFormed(b, ws) ==
    /\ <<>> \notin DOMAIN b
    /\ \A k \in DOMAIN b : b[k] \in Nat /\ b[k] > 0
    /\ \A k \in DOMAIN b : \E p \in 1..Len(ws) : ws[p] = k

C9_BagWellFormed ==
    /\ BagWellFormed(bow, words)
    /\ BagWellFormed(bresult, words)

C9_Witness ==
    /\ bpc = "loop" /\ i > 0
    /\ bow # EmptyBag
    /\ \E p \in 1..i : IsSingle(words, p) /\ IsSingle(words, p + 1)

\* One iteration of the outer while loop (line 77): the cursor strictly
\* increases, by 1 over a fragment longer than one character, otherwise to
\* the end of the maximal run of single-character fragments that starts at
\* the cursor, and it stays within the sequence.
IterationAdvances ==
    (bpc = "loop" /\ i < Len(words) /\ bpc' = "loop") =>
        /\ i' > i
        /\ i' <= Len(words)
        /\ words' = words
        /\ Len(words[i + 1]) > 1 => i' = i + 1
        /\ Len(words[i + 1]) <= 1 =>
              /\ \A p \in (i + 1)..i' : Len(words[p]) = 1
              /\ i' = Len(words) \/ Len(words[i' + 1]) # 1

\* What str.split() guarantees of the sequence the walk runs over.
NoEmptyFragment == \A p \in 1..Len(words) : Len(words[p]) >= 1

\* While the walk runs, an iteration or the return can be taken and moves
\* the cursor or the control point: no state of the walk is stuck or repeats.
Progresses ==
    bpc = "loop" => ENABLED <<CountWord \/ MergeRun \/ BowReturn>>_<<i, bpc>>

EventuallyReturns == <>(bpc = "returned")

====
